---- MODULE Spec2Model ----
(***************************************************************************)
(* Survey Data API Gateway (src/main.py): the SQL endpoints POST /query    *)
(* and POST /analyze, their classifier is_select_query and their metadata  *)
(* extractor analyze_query, over the syntax trees the sqlglot library      *)
(* returns for the request's SQL text.                                     *)
(*                                                                         *)
(* A request's SQL text is described by what is written in it (a Text      *)
(* record): the bodies of its WITH clause, the leading keyword of its      *)
(* statement, the item of its projection, the source its FROM clause reads *)
(* (with the JOIN, subquery or WHERE ... IN written there), the way        *)
(* identifiers are quoted, and whether the text is lexically or            *)
(* syntactically broken.  parse_one turns a Text into a tree of nodes, one *)
(* per grammar construct.                                                  *)
(***************************************************************************)
EXTENDS Integers, Sequences, FiniteSets, TLC

\* Largest number of common table expressions a WITH clause declares.
MaxCtes == 2

(***************************************************************************)
(* The written text                                                        *)
(***************************************************************************)

\* Leading keywords of the statements the texts are made of.
Keywords ==
    {"SELECT", "INSERT", "UPDATE", "DELETE", "CREATE", "DROP", "ALTER",
     "PRAGMA", "ATTACH", "VACUUM"}

\* Leading keywords of the statements written as CTE bodies.
CteKeywords == {"SELECT", "DELETE"}

\* What a projection item is: form, the name written (function or column),
\* and the content of a string literal or of a comment.
Item(form, name, content) == [form |-> form, name |-> name, content |-> content]

NoItem == Item("none", "", "")

\* Function names as written in a call.
FuncNames == {"AVG", "avg", "Count", "group_concat", "my_udf"}

\* The projection items of a SELECT:
\*   star          *
\*   col           score
\*   lit           'DROP TABLE x' AS note
\*   comment       score /* DROP TABLE x */
\*   call          AVG(score)
\*   qcall         "my_udf"(score)      (function name in identifier quotes)
\*   dotcall       s.COUNT(score)       (function called through a dot)
\*   pair          AVG(score), id       (two items)
\*   scalar        (SELECT MAX(score) FROM u)
SelectItems ==
    {Item("star", "", ""), Item("col", "score", ""),
     Item("lit", "note", "DROP TABLE x"), Item("comment", "score", "DROP TABLE x"),
     Item("pair", "AVG", ""), Item("scalar", "MAX", "")}
    \cup {Item("call", f, "") : f \in FuncNames}
    \cup {Item("qcall", f, "") : f \in {"my_udf"}}
    \cup {Item("dotcall", f, "") : f \in {"COUNT", "my_udf"}}

\* Ways a text can be broken: "syntax" is an unbalanced parenthesis, "lex" an
\* unterminated string literal.
Defects == {"none", "syntax", "lex"}

\* Identifier quoting used for the table name: none, or SQLite's backticks.
Quotes == {"plain", "backtick"}

\* What the FROM clause of a SELECT reads, and the WHERE clause after it:
\*   table         FROM t
\*   join          FROM t JOIN u ON t.id = u.id
\*   self          FROM t JOIN t AS b ON t.id = b.id
\*   sub           FROM (SELECT id FROM t) s
\*   subjoin       FROM (SELECT * FROM t JOIN u ON t.id = u.id) s
\*   in            FROM t WHERE score IN (SELECT score FROM u)
\*   cte           FROM j, after  j AS (SELECT * FROM t JOIN u ON t.id = u.id)
\*                 as the last CTE of the WITH clause
Sources == {"table", "join", "self", "sub", "subjoin", "in", "cte"}

\* The projection items written before each source other than a table.
SourceItems == {Item("star", "", ""), Item("col", "score", ""), Item("call", "AVG", "")}

\* What follows the statement after a ';': nothing, or a second statement,
\*   SELECT        ; SELECT * FROM u
\*   DROP          ; DROP TABLE t
Tails == {"SELECT", "DROP"}

Text(with, kw, item, src, quote, defect) ==
    [with |-> with, kw |-> kw, item |-> item, src |-> src, quote |-> quote,
     defect |-> defect, tail |-> "none"]

\* The text, then ';', then a second statement.
Followed(text, tail) == [text EXCEPT !.tail = tail]

\* Sequences of at most n elements of S.
RECURSIVE SeqsUpTo(_, _)
SeqsUpTo(S, n) ==
    IF n = 0 THEN {<<>>}
    ELSE LET shorter == SeqsUpTo(S, n - 1)
         IN  shorter \cup {Append(s, x) : s \in {t \in shorter : Len(t) = n - 1}, x \in S}

WithClauses == SeqsUpTo(CteKeywords, MaxCtes)

\* SELEC * FORM t: no keyword in it, three names and a star.
Misspelt == Text(<<>>, "SELEC", Item("star", "", ""), "table", "plain", "none")

\* The SQL texts requests carry.
Texts ==
    {Text(w, "SELECT", i, "table", q, "none") :
        w \in WithClauses, i \in SelectItems, q \in Quotes}
    \cup {Text(w, "SELECT", i, "table", "plain", d) :
        w \in WithClauses, i \in SelectItems, d \in Defects}
    \cup {Text(w, "SELECT", i, s, "plain", "none") :
        w \in WithClauses, i \in SourceItems, s \in Sources}
    \cup {Text(w, k, NoItem, "table", q, "none") :
        w \in WithClauses, k \in Keywords \ {"SELECT"}, q \in Quotes}
    \cup {Text(w, k, NoItem, "table", "plain", "syntax") :
        w \in WithClauses, k \in Keywords \ {"SELECT"}}
    \cup {Misspelt}
    \cup {Followed(Text(<<>>, "SELECT", i, "table", "plain", "none"), tl) :
        i \in {Item("star", "", ""), Item("col", "score", "")}, tl \in Tails}
    \cup {Followed(Text(<<>>, "DELETE", NoItem, "table", "plain", "none"), tl) :
        tl \in Tails}

NoText == Text(<<>>, "", NoItem, "table", "plain", "none")

(***************************************************************************)
(* The syntax tree                                                         *)
(***************************************************************************)

\* A node of the tree: its class, its `this` argument when that is a name,
\* whether `this` is a plain string (an Identifier node otherwise), and its
\* child nodes in the order the library iterates them.
Node(cls, this, thisIsStr, kids) ==
    [cls |-> cls, this |-> this, thisIsStr |-> thisIsStr, kids |-> kids]

Leaf(cls, this) == Node(cls, this, TRUE, <<>>)

NoNode == Leaf("", "")

\* str.upper() on the function names of the texts.
Upper(name) ==
    CASE name \in {"AVG", "avg"} -> "AVG"
      [] name \in {"COUNT", "Count"} -> "COUNT"
      [] name = "group_concat" -> "GROUP_CONCAT"
      [] name = "my_udf" -> "MY_UDF"
      [] OTHER -> name

\* The functions the library's parser knows by name, with the node class
\* it builds for each; any other call becomes an Anonymous node.
KnownFunctions == {"COUNT", "SUM", "AVG", "MIN", "MAX", "GROUP_CONCAT"}

FunctionClass(upper) ==
    CASE upper = "COUNT" -> "Count"
      [] upper = "SUM" -> "Sum"
      [] upper = "AVG" -> "Avg"
      [] upper = "MIN" -> "Min"
      [] upper = "MAX" -> "Max"
      [] upper = "GROUP_CONCAT" -> "GroupConcat"
      [] OTHER -> "Anonymous"

\* The node class of a statement, by its leading keyword.  A text that
\* starts with a name is read as an expression: SELEC * FORM t is the
\* product of two columns, with the alias t.
StatementClass(kw) ==
    CASE kw = "SELECT" -> "Select"
      [] kw = "SELEC" -> "Alias"
      [] kw = "INSERT" -> "Insert"
      [] kw = "UPDATE" -> "Update"
      [] kw = "DELETE" -> "Delete"
      [] kw = "CREATE" -> "Create"
      [] kw = "DROP" -> "Drop"
      [] kw = "ALTER" -> "Alter"
      [] kw = "PRAGMA" -> "Pragma"
      [] kw = "ATTACH" -> "Attach"
      [] OTHER -> "Command"

\* Statement classes that take a WITH clause.
AcceptsWith == {"Select", "Insert", "Update", "Delete", "Create"}

ColumnNode(name) == Node("Column", name, TRUE, <<Leaf("Identifier", name)>>)

\* The column written table.name.
QualifiedColumn(table, name) ==
    Node("Column", name, TRUE, <<Leaf("Identifier", name), Leaf("Identifier", table)>>)

FromNode(source) == Node("From", "", TRUE, <<source>>)

\* JOIN right ON left.id = by.id, `right` a Table node.
JoinNode(left, right, by) ==
    Node("Join", "", TRUE,
         <<right,
           Node("EQ", "", TRUE, <<QualifiedColumn(left, "id"), QualifiedColumn(by, "id")>>)>>)

\* A parenthesised SELECT: a Subquery node around the Select node, with its
\* alias when it has one.
SubqueryNode(kids, alias) ==
    Node("Subquery", "", TRUE,
         <<Node("Select", "", TRUE, kids)>>
         \o (IF alias = "" THEN <<>> ELSE <<Leaf("TableAlias", alias)>>))

\* The tree of a projection item.  A string literal becomes a Literal node
\* holding its content; a comment is attached to its node and is no node.
ParseItem(item) ==
    CASE item.form = "star" -> Leaf("Star", "")
      [] item.form = "col" -> ColumnNode(item.name)
      [] item.form = "comment" -> ColumnNode(item.name)
      [] item.form = "lit" ->
            Node("Alias", "", TRUE,
                 <<Leaf("Literal", item.content), Leaf("Identifier", item.name)>>)
      [] item.form = "call" ->
            IF Upper(item.name) \in KnownFunctions
            THEN Node(FunctionClass(Upper(item.name)), "", TRUE, <<ColumnNode("score")>>)
            ELSE Node("Anonymous", item.name, TRUE, <<ColumnNode("score")>>)
      [] item.form = "qcall" ->
            IF Upper(item.name) \in KnownFunctions
            THEN Node(FunctionClass(Upper(item.name)), "", TRUE, <<ColumnNode("score")>>)
            ELSE Node("Anonymous", item.name, FALSE,
                      <<Leaf("Identifier", item.name), ColumnNode("score")>>)
      [] item.form = "dotcall" ->
            Node("Dot", "", TRUE,
                 <<Leaf("Identifier", "s"),
                   Node("Anonymous", item.name, TRUE, <<ColumnNode("score")>>)>>)
      [] item.form = "scalar" ->
            SubqueryNode(<<Node(FunctionClass(item.name), "", TRUE, <<ColumnNode("score")>>),
                           FromNode(Leaf("Table", "u"))>>, "")
      [] OTHER -> NoNode

\* The projection of a SELECT: its items, in the order written.
ParseProjection(item) ==
    IF item.form = "pair"
    THEN <<Node(FunctionClass(item.name), "", TRUE, <<ColumnNode("score")>>),
           ColumnNode("id")>>
    ELSE <<ParseItem(item)>>

\* The arguments a SELECT gets after its projection: from, joins, where, in
\* the order the parser sets them.
ParseSource(src) ==
    CASE src = "join" ->
            <<FromNode(Leaf("Table", "t")), JoinNode("t", Leaf("Table", "u"), "u")>>
      [] src = "self" ->
            <<FromNode(Leaf("Table", "t")),
              JoinNode("t", Node("Table", "t", TRUE, <<Leaf("TableAlias", "b")>>), "b")>>
      [] src = "sub" ->
            <<FromNode(SubqueryNode(<<ColumnNode("id"), FromNode(Leaf("Table", "t"))>>, "s"))>>
      [] src = "subjoin" ->
            <<FromNode(SubqueryNode(<<Leaf("Star", ""), FromNode(Leaf("Table", "t")),
                                      JoinNode("t", Leaf("Table", "u"), "u")>>, "s"))>>
      [] src = "in" ->
            <<FromNode(Leaf("Table", "t")),
              Node("Where", "", TRUE,
                   <<Node("In", "", TRUE,
                          <<ColumnNode("score"),
                            SubqueryNode(<<ColumnNode("score"),
                                           FromNode(Leaf("Table", "u"))>>, "")>>)>>)>>
      [] src = "cte" -> <<FromNode(Leaf("Table", "j"))>>
      [] OTHER -> <<FromNode(Leaf("Table", "t"))>>

\* The children of a statement node, without its WITH clause.
BodyKids(kw, item, src) ==
    CASE kw = "SELECT" -> ParseProjection(item) \o ParseSource(src)
      [] kw = "SELEC" ->
            <<Node("Mul", "", TRUE, <<ColumnNode("SELEC"), ColumnNode("FORM")>>),
              Leaf("Identifier", "t")>>
      [] kw = "INSERT" -> <<Leaf("Table", "t"), Leaf("Values", "")>>
      [] kw = "UPDATE" ->
            <<Leaf("Table", "t"),
              Node("EQ", "", TRUE, <<ColumnNode("status"), Leaf("Literal", "deleted")>>)>>
      [] kw = "DELETE" -> <<Leaf("Table", "t")>>
      [] kw = "CREATE" -> <<Node("Schema", "", TRUE, <<Leaf("Table", "t")>>)>>
      [] kw = "DROP" -> <<Leaf("Table", "t")>>
      [] kw = "ALTER" -> <<Leaf("Table", "t")>>
      [] OTHER -> <<>>

\* The tree of one CTE: its body, a statement of its own, and its alias.
ParseCte(kw) ==
    Node("CTE", "", TRUE,
         <<Node(StatementClass(kw), "", TRUE,
                IF kw = "SELECT"
                THEN <<Leaf("Star", ""), Node("From", "", TRUE, <<Leaf("Table", "surveys")>>)>>
                ELSE <<Leaf("Table", "surveys")>>),
           Leaf("TableAlias", "c")>>)

\* The CTE of the source "cte":  j AS (SELECT * FROM t JOIN u ON t.id = u.id).
JoinCte ==
    Node("CTE", "", TRUE,
         <<Node("Select", "", TRUE,
                <<Leaf("Star", ""), FromNode(Leaf("Table", "t")),
                  JoinNode("t", Leaf("Table", "u"), "u")>>),
           Leaf("TableAlias", "j")>>)

\* The CTEs a text declares, in the order written.
ParseCtes(query) ==
    [i \in 1..Len(query.with) |-> ParseCte(query.with[i])]
    \o (IF query.src = "cte" THEN <<JoinCte>> ELSE <<>>)

ParseWith(query) == Node("With", "", TRUE, ParseCtes(query))

\* The outcome of a parse: the exception raised ("" for none) with its
\* message, or the root node.
Parsed(ast) == [raised |-> "", msg |-> "", ast |-> ast]
ParseRaises(exc, msg) == [raised |-> exc, msg |-> msg, ast |-> NoNode]

\* sqlglot.parse_one(query, dialect): the root node of the statement, which
\* is the node of the statement that follows the WITH clause, carrying the
\* WITH clause as its last argument.  Only the sqlite dialect reads
\* backticks as identifier quotes.  Of a text of several statements the
\* root of the first is returned, the others are parsed and dropped.
parse_one(query, dialect) ==
    IF query.defect = "lex" THEN ParseRaises("TokenError", "Error tokenizing")
    ELSE IF query.defect = "syntax" THEN ParseRaises("ParseError", "Expecting )")
    ELSE IF query.quote = "backtick" /\ dialect # "sqlite"
    THEN ParseRaises("ParseError", "Invalid expression / Unexpected token")
    ELSE IF Len(query.with) > 0 /\ StatementClass(query.kw) \notin AcceptsWith
    THEN ParseRaises("ParseError", "does not support CTE")
    ELSE Parsed(Node(StatementClass(query.kw), "", TRUE,
                     BodyKids(query.kw, query.item, query.src)
                     \o (IF ParseCtes(query) # <<>> THEN <<ParseWith(query)>> ELSE <<>>)))

\* Expression.find_all(cls): the nodes of the tree in breadth-first order,
\* the root first, filtered by class.
RECURSIVE Bfs(_)
Bfs(queue) ==
    IF queue = <<>> THEN <<>>
    ELSE <<Head(queue)>> \o Bfs(Tail(queue) \o Head(queue).kids)

find_all(ast, cls) == SelectSeq(Bfs(<<ast>>), LAMBDA n : n.cls = cls)

(***************************************************************************)
(* analyze_query and is_select_query                                       *)
(***************************************************************************)

\* An analysis: the six-field report, or the error dictionary, or None.
Report(qt, tables, columns, joins, aggs, subs) ==
    [kind |-> "report", query_type |-> qt, tables |-> tables, columns |-> columns,
     has_joins |-> joins, has_aggregations |-> aggs, has_subqueries |-> subs,
     error |-> <<>>]

AnalysisError(msg) ==
    [kind |-> "error", query_type |-> "", tables |-> <<>>, columns |-> <<>>,
     has_joins |-> FALSE, has_aggregations |-> FALSE, has_subqueries |-> FALSE,
     error |-> <<"Analysis failed: ", msg>>]

NoAnalysis ==
    [kind |-> "none", query_type |-> "", tables |-> <<>>, columns |-> <<>>,
     has_joins |-> FALSE, has_aggregations |-> FALSE, has_subqueries |-> FALSE,
     error |-> <<>>]

\* The names of the nodes of a sequence, the empty names left out.
Names(nodes) ==
    LET named == SelectSeq(nodes, LAMBDA n : n.this # "")
    IN  [i \in 1..Len(named) |-> named[i].this]

agg_functions == {"COUNT", "SUM", "AVG", "MIN", "MAX", "GROUP_CONCAT"}

\* The loop over the Anonymous nodes: "True" at the first node whose name,
\* upper-cased, is an aggregate's; "raise" at a node whose `this` is no string
\* and so has no upper(); "False" when the nodes run out.
RECURSIVE AggScan(_)
AggScan(funcs) ==
    IF funcs = <<>> THEN "False"
    ELSE IF ~Head(funcs).thisIsStr THEN "raise"
    ELSE IF Upper(Head(funcs).this) \in agg_functions THEN "True"
    ELSE AggScan(Tail(funcs))

\* A query type that is "With" for a statement that carries a WITH clause.
QueryType_with(parsed) ==
    IF \E i \in 1..Len(parsed.kids) : parsed.kids[i].cls = "With"
    THEN "With"
    ELSE parsed.cls

\* The query type of the report: type(parsed).__name__, the class of the root.
QueryType(parsed) == parsed.cls

\* The table names of the report: the name of every Table node.
ExtractTables_any_name(parsed) ==
    Names(SelectSeq(Bfs(<<parsed>>), LAMBDA n : n.cls \in {"Table", "Literal"}))

ExtractTables(parsed) == Names(find_all(parsed, "Table"))

\* The column names of the report: the name of every Column node.
ExtractColumns(parsed) == Names(find_all(parsed, "Column"))

\* A join check that looks at the arguments of the root only.
HasJoins_of_root(parsed) ==
    \E i \in 1..Len(parsed.kids) : parsed.kids[i].cls = "Join"

HasJoins(parsed) == Len(find_all(parsed, "Join")) > 0

\* The aggregation check: the loop over the Anonymous nodes of the tree.
HasAggregations(parsed) == AggScan(find_all(parsed, "Anonymous"))

\* A subquery check that counts the Select nodes below the root.
HasSubqueries_nested_select(parsed) ==
    Len(SelectSeq(Bfs(parsed.kids), LAMBDA n : n.cls = "Select")) > 0

HasSubqueries(parsed) == Len(find_all(parsed, "Subquery")) > 0

analyze_query(query) ==
    LET p == parse_one(query, "sqlite")
    IN  IF p.raised # "" THEN AnalysisError(p.msg)
        ELSE IF HasAggregations(p.ast) = "raise"
        THEN AnalysisError("'Identifier' object has no attribute 'upper'")
        ELSE Report(QueryType(p.ast),
                    ExtractTables(p.ast),
                    ExtractColumns(p.ast),
                    HasJoins(p.ast),
                    HasAggregations(p.ast) = "True",
                    HasSubqueries(p.ast))

\* The outcome of a call that may raise HTTPException.
Returns(value) == [raised |-> FALSE, status |-> 0, detail |-> <<>>, value |-> value]
Raises(status, detail) ==
    [raised |-> TRUE, status |-> status, detail |-> detail, value |-> FALSE]

\* A classifier that looks for a Select node anywhere in the tree.
is_select_query_find(query) ==
    LET p == parse_one(query, "sqlite")
    IN  IF p.raised = "ParseError"
        THEN Raises(400, <<"Invalid SQL syntax: ", p.msg>>)
        ELSE IF p.raised # ""
        THEN Raises(400, <<"Query validation error: ", p.msg>>)
        ELSE Returns(Len(find_all(p.ast, "Select")) > 0)

is_select_query(query) ==
    LET p == parse_one(query, "sqlite")
    IN  IF p.raised = "ParseError"
        THEN Raises(400, <<"Invalid SQL syntax: ", p.msg>>)
        ELSE IF p.raised # ""
        THEN Raises(400, <<"Query validation error: ", p.msg>>)
        ELSE Returns(p.ast.cls = "Select")

\* str(e) of an HTTPException.
StrHTTPException(e) ==
    <<IF e.status = 400 THEN "400: " ELSE "404: ">> \o e.detail

(***************************************************************************)
(* The storage engine and the connection context manager                   *)
(***************************************************************************)

\* Database names requests carry, and the files that exist under data/.
Databases == {"survey.db", "missing.db"}
DataFiles == {"survey.db"}

\* What the storage engine does with a request that reaches it: it returns
\* rows, or pandas raises DatabaseError on the statement, or sqlite3.connect
\* raises sqlite3.OperationalError.
Engine == {"rows", "DatabaseError", "OperationalError"}

\* One step of a handler: the operation, the text it was given, its outcome.
Call(op, text, out) == [op |-> op, text |-> text, out |-> out]

\* get_db_connection up to its yield: the exception raised, or the open
\* connection, with the steps taken.
get_db_connection(db_name, engine) ==
    IF db_name \notin DataFiles
    THEN [raised |-> "HTTPException",
          error |-> Raises(404, <<"Database ", db_name, " not found">>),
          calls |-> <<>>]
    ELSE IF engine = "OperationalError"
    THEN [raised |-> "sqlite3.Error", error |-> Returns(FALSE),
          calls |-> <<Call("connect", NoText, "sqlite3.Error")>>]
    ELSE [raised |-> "", error |-> Returns(FALSE),
          calls |-> <<Call("connect", NoText, "conn")>>]

\* A context manager that closes only when its body returns.
CloseConnection_on_return(body_raised) ==
    IF body_raised THEN <<>> ELSE <<Call("close", NoText, "")>>

\* get_db_connection after its yield: the finally clause closes the
\* connection, whether the body of the with statement raised or returned.
CloseConnection(body_raised) == <<Call("close", NoText, "")>>

(***************************************************************************)
(* POST /query                                                             *)
(***************************************************************************)

NoFormat == [kind |-> "none", text |-> NoText]
Formatted(text) == [kind |-> "text", text |-> text]

\* A response: the HTTP status and the fields of its body.  `rows` says the
\* body carries data, columns and row_count; error is <<>> for None.
QueryResponse(success, error, query, analysis, rows) ==
    [http |-> 200, success |-> success, error |-> error, query |-> query,
     analysis |-> analysis, rows |-> rows,
     is_valid_select |-> FALSE, formatted_query |-> NoFormat]

OnlySelect == <<"Only SELECT queries are allowed for security reasons">>

Outcome(r) == IF r.raised THEN "HTTPException" ELSE IF r.value THEN "True" ELSE "False"

\* The body of the handler of POST /query, from the analysis of the text
\* and the outcome of the security check: its response and the steps it took.
QueryHandler(request, engine, query_analysis, sel) ==
    LET q == request.query
        pre == <<Call("analyze_query", q, query_analysis.kind),
                 Call("is_select_query", q, Outcome(sel))>>
        db == get_db_connection(request.database, engine)
    IN  IF sel.raised
        THEN [response |-> QueryResponse(FALSE,
                               <<"Unexpected error: ">> \o StrHTTPException(sel),
                               q, query_analysis, FALSE),
              calls |-> pre]
        ELSE IF ~sel.value
        THEN [response |-> QueryResponse(FALSE, OnlySelect, q, query_analysis, FALSE),
              calls |-> pre]
        ELSE IF db.raised = "HTTPException"
        THEN [response |-> QueryResponse(FALSE,
                               <<"Unexpected error: ">> \o StrHTTPException(db.error),
                               q, query_analysis, FALSE),
              calls |-> pre \o <<Call("get_db_connection", NoText, "HTTPException")>>]
        ELSE IF db.raised = "sqlite3.Error"
        THEN [response |-> QueryResponse(FALSE,
                               <<"Database error: ", "unable to open database file">>,
                               q, query_analysis, FALSE),
              calls |-> pre \o <<Call("get_db_connection", NoText, "sqlite3.Error")>>
                           \o db.calls]
        ELSE IF engine = "DatabaseError"
        THEN [response |-> QueryResponse(FALSE,
                               <<"Unexpected error: ", "Execution failed on sql">>,
                               q, query_analysis, FALSE),
              calls |-> pre \o <<Call("get_db_connection", NoText, "conn")>> \o db.calls
                           \o <<Call("read_sql_query", q, "DatabaseError")>>
                           \o CloseConnection(TRUE)]
        ELSE [response |-> QueryResponse(TRUE, <<>>, q, query_analysis, TRUE),
              calls |-> pre \o <<Call("get_db_connection", NoText, "conn")>> \o db.calls
                           \o <<Call("read_sql_query", q, "rows")>>
                           \o CloseConnection(FALSE)]

\* A handler without the security check.
execute_query_unchecked(request, engine) ==
    QueryHandler(request, engine, analyze_query(request.query), Returns(TRUE))

\* A handler that lets the analysis take part in the decision.
execute_query_by_analysis(request, engine) ==
    QueryHandler(request, engine, analyze_query(request.query),
                 IF analyze_query(request.query).kind = "error"
                 THEN Returns(FALSE)
                 ELSE is_select_query(request.query))

\* The handler of POST /query.
execute_query(request, engine) ==
    QueryHandler(request, engine, analyze_query(request.query),
                 is_select_query(request.query))

(***************************************************************************)
(* POST /analyze                                                           *)
(***************************************************************************)

\* The text the generator writes for a tree: function names upper-cased,
\* identifiers in the target dialect's quotes, comments kept.  transpile
\* returns one text per statement, and its caller takes the first.
Generate(query) ==
    [query EXCEPT !.quote = "plain", !.tail = "none",
                  !.item = IF query.item.form \in {"call", "qcall", "dotcall"}
                           THEN Item(query.item.form, Upper(query.item.name), "")
                           ELSE query.item]

\* sqlglot.transpile(query, write="sqlite", pretty=True)[0]: the text is
\* read in the default dialect, no read dialect being given.
transpile(query) ==
    LET p == parse_one(query, "default")
    IN  [raised |-> p.raised, msg |-> p.msg,
         out |-> IF p.raised = "" THEN Generate(query) ELSE NoText]

AnalyzeResponse(valid, error, query, analysis, formatted) ==
    [http |-> 200, success |-> FALSE, error |-> error, query |-> query,
     analysis |-> analysis, rows |-> FALSE,
     is_valid_select |-> valid, formatted_query |-> formatted]

\* The handler of POST /analyze: its response and the steps it took.
analyze_sql_query(request) ==
    LET q == request.query
        analysis == analyze_query(q)
        sel == is_select_query(q)
        pre == <<Call("analyze_query", q, analysis.kind),
                 Call("is_select_query", q, Outcome(sel))>>
        f == transpile(q)
    IN  IF sel.raised
        THEN [response |-> AnalyzeResponse(FALSE, StrHTTPException(sel), q,
                                           NoAnalysis, NoFormat),
              calls |-> pre]
        ELSE IF analysis.kind = "error"
        THEN [response |-> AnalyzeResponse(sel.value, <<>>, q, analysis, NoFormat),
              calls |-> pre]
        ELSE IF f.raised # ""
        THEN [response |-> AnalyzeResponse(FALSE, <<f.msg>>, q, NoAnalysis, NoFormat),
              calls |-> pre \o <<Call("transpile", q, f.raised)>>]
        ELSE [response |-> AnalyzeResponse(sel.value, <<>>, q, analysis, Formatted(f.out)),
              calls |-> pre \o <<Call("transpile", q, "")>>]

(***************************************************************************)
(* The state machine: one request handled per step                         *)
(***************************************************************************)

VARIABLES
    request,    \* the request being answered, none between requests
    response,   \* the response its handler returned
    calls,      \* the steps its handler took, in order
    prev,       \* what was decided for the /query request answered last
    threads,    \* per thread: the function it is in, where, on which text
    locals,     \* per stack frame: the `analysis` dictionary being filled
    store,      \* the rows of the table a filtered endpoint reads
    client      \* the pages a client has fetched of one listing

vars == <<request, response, calls, prev, threads, locals, store, client>>

Request(endpoint, query, database) ==
    [endpoint |-> endpoint, query |-> query, database |-> database]

NoRequest == Request("", NoText, "")
NoResponse == AnalyzeResponse(FALSE, <<>>, NoText, NoAnalysis, NoFormat)

\* The ops of the steps taken.
Ops(cs) == {cs[i].op : i \in 1..Len(cs)}

\* What a /query request was decided: how its text was classified, what its
\* analysis was, and whether the handler went on to execute it.
Decision(resp, cs) ==
    [classified |-> cs[2].out,
     analysis |-> resp.analysis.kind,
     select_type |-> resp.analysis.query_type = "Select",
     executes |-> "get_db_connection" \in Ops(cs)]

NoDecision ==
    [classified |-> "", analysis |-> "none", select_type |-> FALSE, executes |-> FALSE]

\* Largest number of threads inside the engine's functions at once.
MaxThreads == 2

\* A client paging through a listing: the row ids received so far and the
\* number of requests made.
Client(active, rows, requests) == [active |-> active, rows |-> rows, requests |-> requests]

NoClient == Client(FALSE, <<>>, 0)

Threads == 1..MaxThreads

\* A thread: the function it runs, the statement it is at, the text it was
\* given, and the value it is about to return.
Thread(fn, pc, query, result) == [fn |-> fn, pc |-> pc, query |-> query, result |-> result]

Idle == Thread("", "idle", NoText, NoAnalysis)

Init ==
    /\ request = NoRequest
    /\ response = NoResponse
    /\ calls = <<>>
    /\ prev = NoDecision
    /\ threads = [t \in Threads |-> Idle]
    /\ locals = [t \in Threads |-> NoAnalysis]
    /\ store = <<>>
    /\ client = NoClient

\* POST /query arrives and its handler runs to its return.  The driver
\* executes one statement per call and raises on a text that holds more.
ExecuteQuery(query, database, engine) ==
    LET r == execute_query(Request("/query", query, database), engine)
    IN  /\ request = NoRequest
        /\ query.tail # "none" => engine # "rows"
        /\ request' = Request("/query", query, database)
        /\ response' = r.response
        /\ calls' = r.calls
        /\ UNCHANGED <<prev, threads, locals, store, client>>

\* POST /analyze arrives and its handler runs to its return.
AnalyzeSqlQuery(query, database) ==
    LET r == analyze_sql_query(Request("/analyze", query, database))
    IN  /\ request = NoRequest
        /\ request' = Request("/analyze", query, database)
        /\ response' = r.response
        /\ calls' = r.calls
        /\ UNCHANGED <<prev, threads, locals, store, client>>

\* The response is sent; nothing of the request is kept by the server.
Reply ==
    /\ request # NoRequest
    /\ request' = NoRequest
    /\ response' = NoResponse
    /\ calls' = <<>>
    /\ prev' = IF request.endpoint = "/query" THEN Decision(response, calls) ELSE prev
    /\ UNCHANGED <<threads, locals, store, client>>

Next ==
    \/ \E query \in Texts, database \in Databases, engine \in Engine :
          ExecuteQuery(query, database, engine)
    \/ \E query \in Texts, database \in Databases :
          AnalyzeSqlQuery(query, database)
    \/ Reply

Spec == Init /\ [][Next]_vars

(***************************************************************************)
(* The engine's functions called from several threads                      *)
(*                                                                         *)
(* analyze_query fills the dictionary `analysis`, a local of the call, one *)
(* statement after the other; threads are switched between statements.     *)
(* is_select_query and the formatting call hold no intermediate value.     *)
(***************************************************************************)

\* The texts the threads are given.
ThreadTexts ==
    {Text(<<>>, "SELECT", Item("col", "score", ""), "in", "plain", "none"),
     Text(<<>>, "SELECT", Item("star", "", ""), "self", "plain", "none"),
     Text(<<>>, "SELECT", Item("qcall", "my_udf", ""), "table", "plain", "none"),
     Text(<<>>, "INSERT", NoItem, "table", "backtick", "none"),
     Text(<<>>, "SELECT", Item("star", "", ""), "table", "plain", "syntax")}

Functions == {"analyze_query", "is_select_query", "transpile"}

\* A frame shared by every call, as a module-level dictionary would be.
FrameOf_shared(t) == 1

\* The frame that holds the locals of thread t's call: its own.
FrameOf(t) == t

\* The value of a finished call as the analysis-shaped record threads hold.
ClassifierResult(sel) ==
    [NoAnalysis EXCEPT !.kind = Outcome(sel), !.error = sel.detail]

FormatResult(f) ==
    [NoAnalysis EXCEPT !.kind = IF f.raised = "" THEN "text" ELSE f.raised,
                       !.query_type = IF f.raised = "" THEN f.out.kw ELSE "",
                       !.error = IF f.raised = "" THEN <<f.out>> ELSE <<f.msg>>]

\* A function of the engine is called on thread t.
Begin(t, fn, query) ==
    /\ threads[t].pc = "idle"
    /\ threads' = [threads EXCEPT ![t] = Thread(fn, "parse", query, NoAnalysis)]
    /\ UNCHANGED <<request, response, calls, prev, locals, store, client>>

\* is_select_query and transpile: parse and return, or raise.
CallOther(t) ==
    /\ threads[t].pc = "parse"
    /\ threads[t].fn \in {"is_select_query", "transpile"}
    /\ threads' = [threads EXCEPT ![t].pc = "return",
                      ![t].result = IF threads[t].fn = "is_select_query"
                                    THEN ClassifierResult(is_select_query(threads[t].query))
                                    ELSE FormatResult(transpile(threads[t].query))]
    /\ UNCHANGED <<request, response, calls, prev, locals, store, client>>

\* analyze_query, lines 127-136: parse, then create the dictionary.
AnalyzeParse(t) ==
    LET p == parse_one(threads[t].query, "sqlite")
    IN  /\ threads[t].pc = "parse"
        /\ threads[t].fn = "analyze_query"
        /\ IF p.raised # ""
           THEN /\ threads' = [threads EXCEPT ![t].pc = "return",
                                              ![t].result = AnalysisError(p.msg)]
                /\ UNCHANGED locals
           ELSE /\ threads' = [threads EXCEPT ![t].pc = "tables"]
                /\ locals' = [locals EXCEPT ![FrameOf(t)] =
                                 Report(QueryType(p.ast), <<>>, <<>>, FALSE, FALSE, FALSE)]
        /\ UNCHANGED <<request, response, calls, prev, store, client>>

\* Lines 138-141: the loop that appends the table names.
AnalyzeTables(t) ==
    LET p == parse_one(threads[t].query, "sqlite")
    IN  /\ threads[t].pc = "tables"
        /\ locals' = [locals EXCEPT ![FrameOf(t)].tables = @ \o ExtractTables(p.ast)]
        /\ threads' = [threads EXCEPT ![t].pc = "columns"]
        /\ UNCHANGED <<request, response, calls, prev, store, client>>

\* Lines 143-146: the loop that appends the column names.
AnalyzeColumns(t) ==
    LET p == parse_one(threads[t].query, "sqlite")
    IN  /\ threads[t].pc = "columns"
        /\ locals' = [locals EXCEPT ![FrameOf(t)].columns = @ \o ExtractColumns(p.ast)]
        /\ threads' = [threads EXCEPT ![t].pc = "joins"]
        /\ UNCHANGED <<request, response, calls, prev, store, client>>

\* Lines 148-149.
AnalyzeJoins(t) ==
    LET p == parse_one(threads[t].query, "sqlite")
    IN  /\ threads[t].pc = "joins"
        /\ locals' = [locals EXCEPT ![FrameOf(t)].has_joins = HasJoins(p.ast)]
        /\ threads' = [threads EXCEPT ![t].pc = "aggregations"]
        /\ UNCHANGED <<request, response, calls, prev, store, client>>

\* Lines 151-156: the loop over the Anonymous nodes, which sets the flag, or
\* leaves it, or raises into the except of line 163.
AnalyzeAggregations(t) ==
    LET p == parse_one(threads[t].query, "sqlite")
        found == HasAggregations(p.ast)
    IN  /\ threads[t].pc = "aggregations"
        /\ IF found = "raise"
           THEN /\ threads' = [threads EXCEPT ![t].pc = "return",
                       ![t].result =
                           AnalysisError("'Identifier' object has no attribute 'upper'")]
                /\ UNCHANGED locals
           ELSE /\ threads' = [threads EXCEPT ![t].pc = "subqueries"]
                /\ locals' = [locals EXCEPT ![FrameOf(t)].has_aggregations =
                                                IF found = "True" THEN TRUE ELSE @]
        /\ UNCHANGED <<request, response, calls, prev, store, client>>

\* Lines 158-161: the subquery flag, and `return analysis`.
AnalyzeSubqueries(t) ==
    LET p == parse_one(threads[t].query, "sqlite")
        done == [locals[FrameOf(t)] EXCEPT !.has_subqueries = HasSubqueries(p.ast)]
    IN  /\ threads[t].pc = "subqueries"
        /\ locals' = [locals EXCEPT ![FrameOf(t)] = done]
        /\ threads' = [threads EXCEPT ![t].pc = "return", ![t].result = done]
        /\ UNCHANGED <<request, response, calls, prev, store, client>>

\* The call returns to its caller; its frame is gone.
Return(t) ==
    /\ threads[t].pc = "return"
    /\ threads' = [threads EXCEPT ![t] = Idle]
    /\ locals' = [locals EXCEPT ![FrameOf(t)] = NoAnalysis]
    /\ UNCHANGED <<request, response, calls, prev, store, client>>

ThreadNext ==
    \/ \E t \in Threads, fn \in Functions, query \in ThreadTexts : Begin(t, fn, query)
    \/ \E t \in Threads : CallOther(t)
    \/ \E t \in Threads : AnalyzeParse(t)
    \/ \E t \in Threads : AnalyzeTables(t)
    \/ \E t \in Threads : AnalyzeColumns(t)
    \/ \E t \in Threads : AnalyzeJoins(t)
    \/ \E t \in Threads : AnalyzeAggregations(t)
    \/ \E t \in Threads : AnalyzeSubqueries(t)
    \/ \E t \in Threads : Return(t)

ThreadSpec == Init /\ [][ThreadNext]_vars

(***************************************************************************)
(* The filtered endpoints: GET /api/surveys, /api/responses,               *)
(* /api/demographics and /api/analytics/summary                            *)
(*                                                                         *)
(* A filter value is the text of the query-string parameter, None when the *)
(* parameter is absent.  SQL texts are sequences of tokens.                *)
(***************************************************************************)

\* Largest number of filter parameters a request supplies.
MaxFilters == 2

\* Largest number of rows in the table read.
MaxRows == 3

\* Largest limit a request asks for (the endpoints accept 1..1000).
MaxLimit == 2

\* Largest offset a request asks for.
MaxOffset == 3

None == "None"

Endpoints == {"/api/surveys", "/api/responses", "/api/demographics", "/api/analytics/summary"}

Paginated == Endpoints \ {"/api/analytics/summary"}

\* The filter parameters of an endpoint, in the order its handler tests them.
FilterNames(endpoint) ==
    CASE endpoint = "/api/surveys" -> <<"status", "created_after", "created_before">>
      [] endpoint = "/api/responses" ->
            <<"survey_id", "survey_name", "age_group", "gender", "location",
              "education_level", "income_range", "response_after", "response_before">>
      [] endpoint = "/api/demographics" ->
            <<"age_group", "gender", "education_level", "income_range", "location">>
      [] OTHER -> <<"survey_id", "age_group", "gender", "location">>

\* Parameters declared Optional[int]; the others are Optional[str].
IntParams == {"survey_id"}

\* The values a parameter is sent with.
FilterValues(name) == IF name \in IntParams THEN {None, "0", "7"} ELSE {None, "", "x"}

\* `if value:` on a parameter: None, the integer 0 and the empty string are
\* false.
Truthy(name, value) ==
    /\ value # None
    /\ IF name \in IntParams THEN value # "0" ELSE value # ""

\* The filters of a request: a value for each parameter of the endpoint, None
\* for the parameters the request leaves out.
FilterSets(endpoint) ==
    LET names == {FilterNames(endpoint)[i] : i \in 1..Len(FilterNames(endpoint))}
        sent == {S \in SUBSET names : Cardinality(S) <= MaxFilters}
        given(S) == {g \in [S -> {"", "x", "0", "7"}] : \A n \in S : g[n] \in FilterValues(n)}
    IN  UNION {{[n \in names |-> IF n \in S THEN g[n] ELSE None] : g \in given(S)} : S \in sent}

\* The condition a handler appends for a parameter: the column, the operator
\* and the placeholder.
Condition(endpoint, name) ==
    LET joined == endpoint \in {"/api/responses", "/api/analytics/summary"}
        d(column) == IF joined THEN <<"d", ".", column>> ELSE <<column>>
    IN  CASE name = "survey_id" ->
                <<IF endpoint = "/api/responses" THEN "r" ELSE "s", ".", "survey_id", "=", "?">>
          [] name = "survey_name" -> <<"s", ".", "survey_name", "LIKE", "?">>
          [] name = "location" -> d("location") \o <<"LIKE", "?">>
          [] name = "status" -> <<"status", "=", "?">>
          [] name = "created_after" -> <<"created_date", ">=", "?">>
          [] name = "created_before" -> <<"created_date", "<=", "?">>
          [] name = "response_after" ->
                <<"DATE", "(", "r", ".", "response_date", ")", ">=", "?">>
          [] name = "response_before" ->
                <<"DATE", "(", "r", ".", "response_date", ")", "<=", "?">>
          [] OTHER -> d(name) \o <<"=", "?">>

\* The parameter appended with a condition: the value, between % signs for
\* a LIKE.
Param(endpoint, name, value) ==
    IF name \in {"survey_name", "location"} THEN <<"%", value, "%">> ELSE <<value>>

\* Whether the handler appends the condition of a parameter: `if value:`.
Applied(name, value) == Truthy(name, value)

\* where_conditions and params after the handler's if statements: one entry
\* each per parameter applied, in the order of the tests.
RECURSIVE Build(_, _, _)
Build(endpoint, filters, names) ==
    IF names = <<>> THEN [where_conditions |-> <<>>, params |-> <<>>, applied |-> <<>>]
    ELSE LET rest == Build(endpoint, filters, SubSeq(names, 1, Len(names) - 1))
             name == names[Len(names)]
         IN  IF Applied(name, filters[name])
             THEN [where_conditions |->
                       Append(rest.where_conditions, Condition(endpoint, name)),
                   params |-> Append(rest.params, Param(endpoint, name, filters[name])),
                   applied |-> Append(rest.applied, name)]
             ELSE rest

\* " AND ".join(where_conditions)
RECURSIVE JoinAnd(_)
JoinAnd(conditions) ==
    IF conditions = <<>> THEN <<>>
    ELSE IF Len(conditions) = 1 THEN conditions[1]
    ELSE conditions[1] \o <<"AND">> \o JoinAnd(Tail(conditions))

\* A where clause written also when there is no condition.
WhereClause_always(where_conditions) == <<"WHERE">> \o JoinAnd(where_conditions)

\* where_clause: " WHERE " and the joined conditions, or the empty string.
WhereClause(where_conditions) ==
    IF where_conditions # <<>> THEN <<"WHERE">> \o JoinAnd(where_conditions) ELSE <<>>

\* str() of the integers written into a text.
Str(n) == <<"0", "1", "2", "3", "4", "5", "6", "7", "8", "9">>[n + 1]

\* The SELECT every query of an endpoint starts with, before its WHERE.
BaseQuery(endpoint) ==
    CASE endpoint = "/api/surveys" -> <<"SELECT", "*", "FROM", "surveys">>
      [] endpoint = "/api/demographics" -> <<"SELECT", "*", "FROM", "demographics">>
      [] endpoint = "/api/responses" ->
            <<"SELECT", "r.response_id", "FROM", "responses", "r", "JOIN", "surveys", "s",
              "JOIN", "questions", "q", "LEFT", "JOIN", "demographics", "d">>
      [] OTHER ->
            <<"SELECT", "s.survey_name", "FROM", "surveys", "s", "LEFT", "JOIN",
              "responses", "r", "LEFT", "JOIN", "demographics", "d">>

\* count_query of an endpoint.
CountQuery(endpoint, where_clause) ==
    CASE endpoint = "/api/surveys" -> <<"SELECT", "COUNT(*)", "FROM", "surveys">> \o where_clause
      [] endpoint = "/api/demographics" ->
            <<"SELECT", "COUNT(*)", "FROM", "demographics">> \o where_clause
      [] OTHER ->
            <<"SELECT", "COUNT(*)", "FROM", "(">> \o BaseQuery(endpoint) \o where_clause
            \o <<")", "as", "filtered_data">>

\* A data query that leaves the OFFSET out.
DataQuery_without_offset(endpoint, where_clause, limit, offset) ==
    BaseQuery(endpoint) \o where_clause \o <<"LIMIT", Str(limit)>>

\* data_query or full_query of an endpoint.
DataQuery(endpoint, where_clause, limit, offset) ==
    CASE endpoint = "/api/analytics/summary" ->
            BaseQuery(endpoint) \o where_clause \o <<"GROUP", "BY", "s.survey_id">>
      [] endpoint = "/api/responses" ->
            BaseQuery(endpoint) \o where_clause
            \o <<"ORDER", "BY", "r.response_date", "DESC",
                 "LIMIT", Str(limit), "OFFSET", Str(offset)>>
      [] OTHER ->
            BaseQuery(endpoint) \o where_clause
            \o <<"LIMIT", Str(limit), "OFFSET", Str(offset)>>

\* A row of the table: its id, the value its text columns hold, and its
\* survey_id.
Row(id) ==
    [id |-> id, val |-> IF id % 2 = 1 THEN "x" ELSE "y",
     survey_id |-> IF id <= 2 THEN "7" ELSE "8"]

\* The tables a store can hold: no row, one row, ... in a fixed order.
Stores == {[i \in 1..n |-> Row(i)] : n \in 0..MaxRows}

\* The order of the values of a column.
Rank(value) == IF value = "x" THEN 1 ELSE IF value = "y" THEN 2 ELSE 0

\* The positions of a token in a text.
Positions(text, token) == {p \in 1..Len(text) : text[p] = token}

\* The position of the i-th placeholder of a text.
Placeholder(text, i) ==
    CHOOSE p \in Positions(text, "?") :
        Cardinality({q \in Positions(text, "?") : q <= p}) = i

\* The storage engine's test of the condition that ends at a placeholder,
\* with the parameter bound to it.
Satisfies(row, text, p, param) ==
    LET name == IF text[p - 2] = ")" THEN text[p - 3] ELSE text[p - 2]
        column == IF name = "survey_id" THEN row.survey_id ELSE row.val
        value == IF text[p - 1] = "LIKE" THEN param[2] ELSE param[1]
    IN  CASE text[p - 1] = ">=" -> Rank(column) >= Rank(value)
          [] text[p - 1] = "<=" -> Rank(column) <= Rank(value)
          [] OTHER -> column = value

\* The integer a token of digits stands for.
Int_(token) == CHOOSE n \in 0..9 : Str(n) = token

\* The token after a keyword of a text.
After(text, keyword) == text[(CHOOSE p \in Positions(text, keyword) : TRUE) + 1]

\* A WHERE that no condition follows: the statement does not parse.
DanglingWhere(text) ==
    \E p \in Positions(text, "WHERE") :
        p = Len(text) \/ text[p + 1] \in {"LIMIT", "ORDER", "GROUP", ")"}

\* pd.read_sql_query(text, conn, params=params) on the rows of the table:
\* the statement is refused when it does not parse or when the number of
\* parameters is not the number of placeholders; otherwise the rows that
\* satisfy every condition are counted, or returned from OFFSET on and up
\* to LIMIT of them.
read_sql_query(text, params, rows) ==
    LET found == SelectSeq(rows, LAMBDA row :
                     \A i \in 1..Len(params) :
                         Satisfies(row, text, Placeholder(text, i), params[i]))
        offset == IF Positions(text, "OFFSET") # {} THEN Int_(After(text, "OFFSET")) ELSE 0
        limit == IF Positions(text, "LIMIT") # {} THEN Int_(After(text, "LIMIT")) ELSE Len(found)
        last == IF offset + limit < Len(found) THEN offset + limit ELSE Len(found)
    IN  IF DanglingWhere(text) \/ Cardinality(Positions(text, "?")) # Len(params)
        THEN [raised |-> TRUE, count |-> 0, rows |-> <<>>]
        ELSE IF text[2] = "COUNT(*)"
        THEN [raised |-> FALSE, count |-> Len(found), rows |-> <<>>]
        ELSE [raised |-> FALSE, count |-> 0, rows |-> SubSeq(found, offset + 1, last)]

\* A has_more that is true when the page ends on the last row.
HasMore_inclusive(offset, count, total_count) == (offset + count) <= total_count

\* pagination.has_more
HasMore(offset, count, total_count) == (offset + count) < total_count

RestRequest(endpoint, filters, limit, offset, database) ==
    [endpoint |-> endpoint, filters |-> filters, limit |-> limit, offset |-> offset,
     database |-> database]

\* A step of a handler of a filtered endpoint, with the SQL text and the
\* parameters it passes.
RestCall(op, text, params, out) == [op |-> op, text |-> text, params |-> params, out |-> out]

\* The steps of the connection context manager, as steps of such a handler.
RestCalls(steps) ==
    [i \in 1..Len(steps) |-> RestCall(steps[i].op, <<>>, <<>>, steps[i].out)]

\* The response of a filtered endpoint; data is the ids of its rows.
RestResponse(http, detail, data, total_count, filters_applied, has_more) ==
    [http |-> http, detail |-> detail, success |-> http = 200, data |-> data,
     total_count |-> total_count, filtered_count |-> Len(data),
     filters_applied |-> filters_applied, has_more |-> has_more]

\* The text an endpoint puts before str(e) in the detail of its HTTP 500.
ErrorPrefix(endpoint) ==
    CASE endpoint = "/api/surveys" -> "Error fetching surveys: "
      [] endpoint = "/api/responses" -> "Error fetching responses: "
      [] endpoint = "/api/demographics" -> "Error fetching demographics: "
      [] OTHER -> "Error generating analytics: "

\* The except clause of a filtered endpoint: HTTP 500 with str(e).
RestError(endpoint, message) ==
    RestResponse(500, <<ErrorPrefix(endpoint)>> \o message, <<>>, 0, <<>>, FALSE)

\* The handler of a filtered endpoint: its response and the steps it took.
RestHandler(req, rows) ==
    LET db == get_db_connection(req.database, "rows")
        built == Build(req.endpoint, req.filters, FilterNames(req.endpoint))
        where_clause == WhereClause(built.where_conditions)
        count_query == CountQuery(req.endpoint, where_clause)
        data_query == DataQuery(req.endpoint, where_clause, req.limit, req.offset)
        counted == read_sql_query(count_query, built.params, rows)
        df == read_sql_query(data_query, built.params, rows)
        count_call == RestCall("read_sql_query", count_query, built.params,
                               IF counted.raised THEN "DatabaseError" ELSE "rows")
        data_call == RestCall("read_sql_query", data_query, built.params,
                              IF df.raised THEN "DatabaseError" ELSE "rows")
        ids == [i \in 1..Len(df.rows) |-> df.rows[i].id]
    IN  IF db.raised = "HTTPException"
        THEN [response |-> RestError(req.endpoint, StrHTTPException(db.error)),
              calls |-> RestCalls(db.calls)]
        ELSE IF req.endpoint \in Paginated /\ counted.raised
        THEN [response |-> RestError(req.endpoint, <<"Execution failed on sql">>),
              calls |-> RestCalls(db.calls) \o <<count_call>>
                        \o RestCalls(CloseConnection(TRUE))]
        ELSE IF df.raised
        THEN [response |-> RestError(req.endpoint, <<"Execution failed on sql">>),
              calls |-> RestCalls(db.calls)
                        \o (IF req.endpoint \in Paginated THEN <<count_call>> ELSE <<>>)
                        \o <<data_call>> \o RestCalls(CloseConnection(TRUE))]
        ELSE IF req.endpoint \in Paginated
        THEN [response |-> RestResponse(200, <<>>, ids, counted.count, req.filters,
                               HasMore(req.offset, Len(df.rows), counted.count)),
              calls |-> RestCalls(db.calls) \o <<count_call, data_call>>
                        \o RestCalls(CloseConnection(FALSE))]
        ELSE [response |-> RestResponse(200, <<>>, ids, Len(df.rows), req.filters, FALSE),
              calls |-> RestCalls(db.calls) \o <<data_call>>
                        \o RestCalls(CloseConnection(FALSE))]

\* The store holds some rows; no request is being answered.
RestInit ==
    /\ request = NoRequest
    /\ response = NoResponse
    /\ calls = <<>>
    /\ prev = NoDecision
    /\ threads = [t \in Threads |-> Idle]
    /\ locals = [t \in Threads |-> NoAnalysis]
    /\ store \in Stores
    /\ client = NoClient

\* A GET on a filtered endpoint arrives and its handler runs to its return.
\* A request for the first page of a listing starts a client's paging.
Get ==
    /\ request.endpoint = ""
    /\ \E endpoint \in Endpoints, limit \in 1..MaxLimit, offset \in 0..MaxOffset,
          database \in Databases :
          \E filters \in FilterSets(endpoint) :
             LET req == RestRequest(endpoint, filters, limit, offset, database)
                 r == RestHandler(req, store)
             IN  /\ endpoint \notin Paginated => limit = 1 /\ offset = 0
                 /\ request' = req
                 /\ response' = r.response
                 /\ calls' = r.calls
                 /\ client' = IF endpoint \in Paginated /\ offset = 0 /\ r.response.success
                              THEN Client(TRUE, r.response.data, 1)
                              ELSE NoClient
                 /\ UNCHANGED <<prev, threads, locals, store>>

\* The client asks for the next page: same filters and limit, offset
\* advanced by limit, while has_more is true.
NextPage ==
    LET req == [request EXCEPT !.offset = @ + request.limit]
        r == RestHandler(req, store)
    IN  /\ request.endpoint \in Paginated
        /\ client.active
        /\ response.has_more
        /\ request' = req
        /\ response' = r.response
        /\ calls' = r.calls
        /\ client' = Client(TRUE, client.rows \o r.response.data, client.requests + 1)
        /\ UNCHANGED <<prev, threads, locals, store>>

\* The response is sent and the client is done with it.
RestReply ==
    /\ request.endpoint # ""
    /\ request' = NoRequest
    /\ response' = NoResponse
    /\ calls' = <<>>
    /\ client' = NoClient
    /\ UNCHANGED <<prev, threads, locals, store>>

RestNext ==
    \/ Get
    \/ NextPage
    \/ RestReply

RestSpec == RestInit /\ [][RestNext]_vars

(***************************************************************************)
(* Properties                                                              *)
(***************************************************************************)

\* The request being answered, its parse in the dialect of the classifier,
\* and the steps of its handler.
Answering(endpoint) == request.endpoint = endpoint
AnsweringSql == request.endpoint \in {"/query", "/analyze"}
Parse == parse_one(request.query, "sqlite")
Classified == calls[2].out
Did(op) == op \in Ops(calls)

\* The messages of the library's parser and tokenizer.
ParserMessages ==
    {"Expecting )", "Error tokenizing", "Invalid expression / Unexpected token",
     "does not support CTE"}

\* An error text that carries a message of the parser.
SyntaxReport(error) == \E i \in 1..Len(error) : error[i] \in ParserMessages

\* C1: in POST /query the text handed to the storage engine is the request's
\* text, and is handed over only after is_select_query parsed that text and
\* returned true; when the parse fails or the classification is false, no
\* connection is asked for or opened, nothing is executed, and the response
\* has success = false and an error.
C1_ClassifiedBeforeExecuted ==
    Answering("/query") =>
        /\ \A i \in 1..Len(calls) :
              calls[i].op = "read_sql_query" =>
                 /\ calls[i].text = request.query
                 /\ is_select_query(calls[i].text) = Returns(TRUE)
                 /\ \E j \in 1..(i - 1) :
                       calls[j] = Call("is_select_query", request.query, "True")
        /\ is_select_query(request.query) # Returns(TRUE) =>
              /\ ~Did("get_db_connection") /\ ~Did("connect") /\ ~Did("read_sql_query")
              /\ ~response.success /\ ~response.rows
              /\ response.error # <<>>

\* C1 witness: a /query request whose text was classified and then executed.
C1_Witness ==
    /\ Answering("/query")
    /\ Classified = "True"
    /\ Did("read_sql_query")
    /\ response.success

\* C2: a text that parses and whose statement is not a SELECT is classified
\* false, with or without a WITH clause before it; no text whose statement is
\* not a SELECT is classified true.
C2_NonSelectIsFalse ==
    (AnsweringSql /\ request.query.kw # "SELECT") =>
        /\ Classified # "True"
        /\ Parse.raised = "" => Classified = "False"
        /\ ~Did("read_sql_query")
        /\ ~response.is_valid_select

\* C2 witness: an INSERT after a WITH clause, parsed and classified false.
C2_Witness ==
    /\ AnsweringSql
    /\ request.query.kw = "INSERT"
    /\ Len(request.query.with) > 0
    /\ Parse.raised = ""
    /\ Classified = "False"

\* The CTE bodies of the text are all SELECTs.
AllCtesSelect(query) == \A i \in 1..Len(query.with) : query.with[i] = "SELECT"

\* C3: a SELECT that declares a CTE whose body is a write statement is
\* classified not read-only.
C3_WriteCteIsRejected ==
    (AnsweringSql /\ Parse.raised = "" /\ request.query.kw = "SELECT"
        /\ ~AllCtesSelect(request.query))
    => Classified = "False"

\* C4: a parsed text is classified true exactly when it is a SELECT, plain
\* or after a WITH clause, all of whose CTE bodies are SELECTs.
C4_TrueIffReadOnlySelect ==
    (AnsweringSql /\ Parse.raised = "") =>
        (Classified = "True"
            <=> (request.query.kw = "SELECT" /\ AllCtesSelect(request.query)))

\* C5: a text that fails to parse is never answered with the 'Only SELECT'
\* rejection, a text that parses and is not a SELECT is never answered with
\* a syntax error, and is_select_query raises exactly when the parse fails.
C5_ParseFailureAndRejectionDistinct ==
    AnsweringSql =>
        /\ Parse.raised # "" => response.error # OnlySelect
        /\ (Parse.raised = "" /\ Parse.ast.cls # "Select") => ~SyntaxReport(response.error)
        /\ Classified = "HTTPException" <=> Parse.raised # ""

\* C6: a /query request whose text fails to parse is answered with the
\* HTTP 400 'Invalid SQL syntax' carrying the parser's message, not with an
\* unexpected-error report.
C6_ParseFailureIs400 ==
    (Answering("/query") /\ Parse.raised = "ParseError") =>
        /\ response.http = 400
        /\ response.error = <<"Invalid SQL syntax: ", Parse.msg>>

\* C7: two /query requests whose texts are classified the same way get the
\* same decision, to execute or not, whatever their analyses are; the
\* decision is to execute exactly when the classification is true.
C7_DecisionByClassificationAlone ==
    Answering("/query") =>
        /\ Did("get_db_connection") <=> is_select_query(request.query) = Returns(TRUE)
        /\ prev.classified = Outcome(is_select_query(request.query))
              => prev.executes = Did("get_db_connection")

\* C7 witness: a request classified true with a report of type Select is
\* executed after one classified true whose analysis was an error dictionary.
C7_Witness ==
    /\ Answering("/query")
    /\ Classified = "True" /\ prev.classified = "True"
    /\ prev.analysis = "error" /\ ~prev.select_type
    /\ response.analysis.kind = "report" /\ response.analysis.query_type = "Select"
    /\ prev.executes /\ Did("get_db_connection")

\* C8: for every text that parses, POST /analyze returns an analysis report
\* and a formatted_query, both non-null, whatever is_valid_select is.
C8_AnalyzeReturnsReportAndFormat ==
    (Answering("/analyze") /\ Parse.raised = "") =>
        /\ response.analysis.kind = "report"
        /\ response.formatted_query.kind = "text"

\* The text with the content of its literal or comment replaced.
WithContent(query, content) ==
    [query EXCEPT !.item = Item(query.item.form, query.item.name, content)]

\* The table names written in the text, outside literals and comments.
TablesWritten(query) ==
    (IF query.kw \in {"SELECT", "INSERT", "UPDATE", "DELETE", "CREATE", "DROP", "ALTER"}
     THEN {"t"} ELSE {})
    \cup (IF Len(query.with) > 0 THEN {"surveys"} ELSE {})

Range(seq) == {seq[i] : i \in 1..Len(seq)}

\* C9: what is written inside a string literal or a comment changes neither
\* the classification nor the analysis: a SELECT with write-statement text
\* in a literal or comment is classified as the same text with other content
\* there, its report is the same, and its tables are the tables written in
\* it (t alone when it has no WITH clause).
C9_LiteralsAndCommentsAreInert ==
    (AnsweringSql /\ request.query.item.form \in {"lit", "comment"} /\ Parse.raised = "") =>
        /\ Classified = Outcome(is_select_query(WithContent(request.query, "hello")))
        /\ AllCtesSelect(request.query) => Classified = "True"
        /\ Answering("/query") =>
              /\ response.analysis = analyze_query(WithContent(request.query, "hello"))
              /\ response.analysis.kind = "report"
              /\ Range(response.analysis.tables) = TablesWritten(request.query)
              /\ request.query.with = <<>> => response.analysis.tables = <<"t">>
              /\ Range(response.analysis.columns) \subseteq {"score"}

\* C9 witness: SELECT 'DROP TABLE x' AS note FROM t answered by /query.
C9_Witness ==
    /\ Answering("/query")
    /\ request.query = Text(<<>>, "SELECT", Item("lit", "note", "DROP TABLE x"),
                         "table", "plain", "none")
    /\ Classified = "True"
    /\ response.analysis.tables = <<"t">>

\* The text calls a function named as an aggregate, in any letter case.
CallsAggregate(query) ==
    /\ query.kw = "SELECT"
    /\ query.item.form \in {"call", "qcall", "dotcall", "pair", "scalar"}
    /\ Upper(query.item.name) \in {"COUNT", "SUM", "AVG", "MIN", "MAX", "GROUP_CONCAT"}

\* C10: has_aggregations of the report is true exactly when the text calls
\* COUNT, SUM, AVG, MIN, MAX or GROUP_CONCAT, in any letter case.
C10_AggregationsIffAggregateCall ==
    (Answering("/query") /\ response.analysis.kind = "report") =>
        (response.analysis.has_aggregations <=> CallsAggregate(request.query))

\* The table names written in the text, in the order written, one entry per
\* reference: the CTE bodies first, then the projection, then the FROM
\* clause and what follows it.
TablesReferenced(query) ==
    LET ctes == [i \in 1..Len(query.with) |-> "surveys"]
                \o (IF query.src = "cte" THEN <<"t", "u">> ELSE <<>>)
        source == CASE query.src \in {"join", "subjoin", "in"} -> <<"t", "u">>
                    [] query.src = "self" -> <<"t", "t">>
                    [] query.src = "cte" -> <<"j">>
                    [] OTHER -> <<"t">>
    IN  CASE query.kw = "SELECT" ->
                ctes \o (IF query.item.form = "scalar" THEN <<"u">> ELSE <<>>) \o source
          [] query.kw \in {"INSERT", "UPDATE", "DELETE", "CREATE", "DROP", "ALTER"} ->
                ctes \o <<"t">>
          [] OTHER -> ctes

\* The sequence without the later occurrences of its elements.
RECURSIVE FirstAppearances(_)
FirstAppearances(seq) ==
    IF seq = <<>> THEN <<>>
    ELSE LET front == FirstAppearances(SubSeq(seq, 1, Len(seq) - 1))
             last == seq[Len(seq)]
         IN  IF last \in Range(front) THEN front ELSE Append(front, last)

\* C11: the tables of the report are the tables referenced anywhere in the
\* text, subqueries and CTE bodies included, each exactly once, in the order
\* of their first appearance in the text.
C11_TablesOnceInFirstAppearanceOrder ==
    (Answering("/query") /\ response.analysis.kind = "report") =>
        response.analysis.tables = FirstAppearances(TablesReferenced(request.query))

\* The text declares a CTE: it starts with a WITH clause.
DeclaresCtes(query) == Len(query.with) > 0 \/ query.src = "cte"

\* C12 as claimed: the query_type of the report is the kind of the root
\* node only, and a SELECT preceded by a WITH clause is reported with the
\* With kind, not the Select kind.
C12_WithSelectReportsWith ==
    (Answering("/query") /\ response.analysis.kind = "report") =>
        response.analysis.query_type =
            IF request.query.kw = "SELECT" /\ DeclaresCtes(request.query)
            THEN "With"
            ELSE StatementClass(request.query.kw)

\* C12 amended: the query_type of the report is the class of the statement
\* the text ends in, whatever is nested in it or declared before it; a
\* SELECT preceded by a WITH clause is reported as Select, never as With or
\* CTE or as the class of a CTE body.
C12_QueryTypeIsRootClass ==
    (Answering("/query") /\ response.analysis.kind = "report") =>
        /\ response.analysis.query_type = StatementClass(request.query.kw)
        /\ request.query.kw = "SELECT" => response.analysis.query_type = "Select"

\* C12 witness: a SELECT after a WITH clause of SELECTs, reported as Select.
C12_Witness ==
    /\ Answering("/query")
    /\ request.query.kw = "SELECT"
    /\ Len(request.query.with) > 0 /\ AllCtesSelect(request.query)
    /\ response.analysis.kind = "report"
    /\ response.analysis.query_type = "Select"

\* The column names written in the text, in the order written, one entry
\* per reference; a bare * is no reference.
ColumnsReferenced(query) ==
    LET ctes == IF query.src = "cte" THEN <<"id", "id">> ELSE <<>>
        item == CASE query.item.form \in {"col", "comment", "call", "qcall",
                                          "dotcall", "scalar"} -> <<"score">>
                  [] query.item.form = "pair" -> <<"score", "id">>
                  [] OTHER -> <<>>
        source == CASE query.src \in {"join", "self", "subjoin"} -> <<"id", "id">>
                    [] query.src = "sub" -> <<"id">>
                    [] query.src = "in" -> <<"score", "score">>
                    [] OTHER -> <<>>
    IN  CASE query.kw = "SELECT" -> ctes \o item \o source
          [] query.kw = "UPDATE" -> <<"status">>
          [] OTHER -> <<>>

\* C13: the columns of the report are the column references of the text in
\* the order of a left-to-right traversal of the text, one entry per
\* reference, duplicates kept, and no entry stands for a bare *.
C13_ColumnsInTraversalOrder ==
    (Answering("/query") /\ response.analysis.kind = "report"
        /\ request.query.kw \in Keywords) =>
        /\ response.analysis.columns = ColumnsReferenced(request.query)
        /\ "*" \notin Range(response.analysis.columns)
        /\ "" \notin Range(response.analysis.columns)

\* A JOIN is written in the text: in its FROM clause, in the subquery its
\* FROM clause reads, or in the body of a CTE.
WritesJoin(query) ==
    query.kw = "SELECT" /\ query.src \in {"join", "self", "subjoin", "cte"}

\* C14: has_joins of the report is true exactly when a JOIN is written
\* anywhere in the text, a JOIN written only inside a subquery or a CTE body
\* included.
C14_JoinsIffJoinWritten ==
    (Answering("/query") /\ response.analysis.kind = "report") =>
        (response.analysis.has_joins <=> WritesJoin(request.query))

\* C14 witness: a report with has_joins true for a text whose only JOIN is
\* inside a subquery or a CTE body.
C14_Witness ==
    /\ Answering("/query")
    /\ request.query.src \in {"subjoin", "cte"}
    /\ response.analysis.kind = "report"
    /\ response.analysis.has_joins

\* A parenthesised subquery is written in the text: as the source of its
\* FROM clause, as the operand of IN, or as a scalar item of the projection.
WritesSubquery(query) ==
    /\ query.kw = "SELECT"
    /\ query.src \in {"sub", "subjoin", "in"} \/ query.item.form = "scalar"

\* SELECT * FROM (SELECT id FROM t) s
SelectFromSubquery == Text(<<>>, "SELECT", Item("star", "", ""), "sub", "plain", "none")

\* C15: has_subqueries of the report is true exactly when a parenthesised
\* subquery is written in the text, in the FROM clause or as a scalar or IN
\* operand; it is true for SELECT * FROM (SELECT id FROM t) s and false for
\* a text with no nested SELECT.
C15_SubqueriesIffSubqueryWritten ==
    (Answering("/query") /\ response.analysis.kind = "report") =>
        /\ response.analysis.has_subqueries <=> WritesSubquery(request.query)
        /\ request.query = SelectFromSubquery => response.analysis.has_subqueries
        /\ (~WritesSubquery(request.query) /\ ~DeclaresCtes(request.query))
              => ~response.analysis.has_subqueries

\* C15 witness: the report of SELECT * FROM (SELECT id FROM t) s.
C15_Witness ==
    /\ Answering("/query")
    /\ request.query = SelectFromSubquery
    /\ response.analysis.kind = "report"
    /\ response.analysis.has_subqueries

\* C16: for every SELECT that parses, POST /analyze produces a
\* formatted_query whose analysis equals the analysis of the request's text
\* field for field, and which is classified as the request's text is.
C16_FormatRoundTrip ==
    (Answering("/analyze") /\ Parse.raised = "" /\ request.query.kw = "SELECT") =>
        /\ response.formatted_query.kind = "text"
        /\ analyze_query(response.formatted_query.text) = analyze_query(request.query)
        /\ is_select_query(response.formatted_query.text) = is_select_query(request.query)

\* C17: for every text that parses, POST /analyze returns a formatted_query
\* string; where the formatter cannot render the text, the string is the
\* request's text verbatim, not null and not an error.
C17_FormatFallsBackToSource ==
    (Answering("/analyze") /\ Parse.raised = "") =>
        /\ response.formatted_query.kind = "text"
        /\ response.error = <<>>
        /\ transpile(request.query).raised # ""
              => response.formatted_query = Formatted(request.query)

\* C18: for every text that parses, analyze_query returns a report with its
\* six fields; no construct of the text makes it return an error result in
\* place of the report.
C18_ReportForEveryParsedText ==
    (AnsweringSql /\ Parse.raised = "") =>
        /\ analyze_query(request.query).kind = "report"
        /\ analyze_query(request.query).error = <<>>
        /\ Answering("/query") => response.analysis.kind = "report"

\* The text cannot be tokenised and placed in the grammar: it is broken, or
\* its keywords are misspelt.
Unparsable(query) == query.defect # "none" \/ query = Misspelt

\* C19: a text that cannot be tokenised and placed in the grammar, as
\* SELEC * FORM t, gets a parse error: it is never classified true,
\* analyze_query returns no six-field report for it, and POST /query never
\* executes it.
C19_ParsingFailsClosed ==
    (AnsweringSql /\ Unparsable(request.query)) =>
        /\ Parse.raised # ""
        /\ Classified # "True"
        /\ analyze_query(request.query).kind # "report"
        /\ ~Did("get_db_connection") /\ ~Did("read_sql_query")

\* What a call of fn on the text returns when it runs alone.
ResultAlone(fn, query) ==
    CASE fn = "analyze_query" -> analyze_query(query)
      [] fn = "is_select_query" -> ClassifierResult(is_select_query(query))
      [] OTHER -> FormatResult(transpile(query))

\* Thread t is inside analyze_query, its dictionary partly filled.
Filling(t) == threads[t].pc \in {"tables", "columns", "joins", "aggregations", "subqueries"}

\* C20: whatever the other threads are doing, and whatever was called before
\* on the same thread, a call of is_select_query, analyze_query or the
\* formatter returns what it returns when run alone on its text: the same
\* classification, the same report with tables and columns in the same
\* order; and a dictionary being filled holds nothing of another call.
C20_ResultDependsOnOwnInputOnly ==
    \A t \in Threads :
        /\ threads[t].pc = "return"
              => threads[t].result = ResultAlone(threads[t].fn, threads[t].query)
        /\ Filling(t) =>
              LET ast == parse_one(threads[t].query, "sqlite").ast
                  own == locals[FrameOf(t)]
              IN  /\ own.kind = "report"
                  /\ own.tables \in {<<>>, ExtractTables(ast)}
                  /\ own.columns \in {<<>>, ExtractColumns(ast)}

\* C20 witness: analyze_query returns the report of its text, tables listed,
\* on one thread while another thread is midway through analyze_query on
\* another text, its own tables already listed.
C20_Witness ==
    \E t, u \in Threads :
        /\ t # u
        /\ threads[t].fn = "analyze_query" /\ threads[t].pc = "return"
        /\ threads[t].result.kind = "report" /\ Len(threads[t].result.tables) = 2
        /\ threads[u].fn = "analyze_query" /\ threads[u].pc \in {"columns", "joins"}
        /\ threads[u].query # threads[t].query
        /\ Len(locals[FrameOf(u)].tables) > 0

\* The statements of a text, each as a text of its own.
Statements(query) ==
    {[query EXCEPT !.tail = "none"]}
    \cup (IF query.tail = "SELECT"
          THEN {Text(<<>>, "SELECT", Item("star", "", ""), "table", "plain", "none")}
          ELSE IF query.tail = "DROP"
          THEN {Text(<<>>, "DROP", NoItem, "table", "plain", "none")}
          ELSE {})

\* C21: every statement of a text that POST /query hands to the storage
\* engine is one the classifier finds read-only; a text is not handed over
\* because its first statement is read-only when a statement after the ';'
\* is not.
C21_EveryStatementClassified ==
    Answering("/query") =>
        \A i \in 1..Len(calls) :
            calls[i].op = "read_sql_query" =>
                \A statement \in Statements(calls[i].text) :
                    is_select_query(statement) = Returns(TRUE)

\* POST /query, given the text, passes its security check and goes on to
\* open the database.
QueryWouldExecute(query) ==
    "get_db_connection" \in
        Ops(execute_query(Request("/query", query, "survey.db"), "DatabaseError").calls)

\* C26: POST /analyze answers is_valid_select = true exactly for the texts
\* that POST /query lets through its security check and goes on to execute,
\* also when the formatting or the analysis of the text fails.
C26_AnalyzeAgreesWithQuery ==
    Answering("/analyze") =>
        (response.is_valid_select <=> QueryWouldExecute(request.query))

\* The positions in the steps taken of the connections opened and closed.
Opened == {i \in 1..Len(calls) : calls[i] = Call("connect", NoText, "conn")}
Closed == {i \in 1..Len(calls) : calls[i].op = "close"}

\* C27: a connection opened by get_db_connection is closed exactly once
\* before the handler returns, whether read_sql_query returned or raised; a
\* request opens at most one connection, and none when the database file
\* does not exist.
C27_ConnectionClosedOnce ==
    Answering("/query") =>
        /\ Cardinality(Opened) <= 1
        /\ Cardinality(Closed) = Cardinality(Opened)
        /\ \A o \in Opened : \A c \in Closed : o < c /\ c = Len(calls)
        /\ \A i \in 1..Len(calls) : calls[i].op = "read_sql_query" => Opened # {}
        /\ request.database \notin DataFiles => ~Did("connect")

\* C27 witness: read_sql_query raised on an open connection, and the
\* connection was closed.
C27_Witness ==
    /\ Answering("/query")
    /\ Opened # {}
    /\ \E i \in 1..Len(calls) : calls[i].op = "read_sql_query" /\ calls[i].out = "DatabaseError"
    /\ Closed # {}

(***************************************************************************)
(* The filtered endpoints: what a filter means, told without the SQL text  *)
(***************************************************************************)

\* A filtered endpoint has answered with its listing.
Listed == request.endpoint \in Paginated /\ response.http = 200

\* Whether a row passes a filter of a request.
FilterHolds(row, name, value) ==
    CASE name = "survey_id" -> row.survey_id = value
      [] name \in {"created_after", "response_after"} -> Rank(row.val) >= Rank(value)
      [] name \in {"created_before", "response_before"} -> Rank(row.val) <= Rank(value)
      [] OTHER -> row.val = value

\* The filters of the request that filter: the parameters sent with a value
\* that is not empty and not zero, in the order of the handler.
Filtering ==
    SelectSeq(FilterNames(request.endpoint),
              LAMBDA name : Truthy(name, request.filters[name]))

\* The rows of the store that match the filters of the request.
MatchingRows ==
    SelectSeq(store, LAMBDA row :
        \A i \in 1..Len(Filtering) :
            FilterHolds(row, Filtering[i], request.filters[Filtering[i]]))

Min(a, b) == IF a < b THEN a ELSE b
Max(a, b) == IF a > b THEN a ELSE b

Ids(rows) == [i \in 1..Len(rows) |-> rows[i].id]

\* The least number of pages of a size that hold a number of rows.
Ceil(n, size) == (n + size - 1) \div size

Statements_sent == {i \in 1..Len(calls) : calls[i].op = "read_sql_query"}

\* The column a filter is compared with.
ColumnOf(name) ==
    CASE name \in {"created_after", "created_before"} -> "created_date"
      [] name \in {"response_after", "response_before"} -> "response_date"
      [] OTHER -> name

\* The column of the condition that ends at the i-th placeholder of a text.
ColumnAt(text, i) ==
    LET p == Placeholder(text, i)
    IN  IF text[p - 2] = ")" THEN text[p - 3] ELSE text[p - 2]

\* The values a caller sends in a filter.
CallerValues == {"", "x", "0", "7"}

\* C24: every SQL text a filtered endpoint sends has one placeholder per
\* condition added, the parameter list has one value per condition in the
\* same order, no filter value is written into the text (the only tokens
\* that are not fixed are the integers after LIMIT and OFFSET), and there is
\* a WHERE exactly when a condition was added.
C24_PlaceholderPerCondition ==
    request.endpoint \in Endpoints =>
        \A i \in Statements_sent :
            LET text == calls[i].text
                params == calls[i].params
            IN  /\ Cardinality(Positions(text, "?")) = Len(Filtering)
                /\ Len(params) = Len(Filtering)
                /\ \A k \in 1..Len(Filtering) :
                      /\ ColumnAt(text, k) = ColumnOf(Filtering[k])
                      /\ request.filters[Filtering[k]] \in Range(params[k])
                /\ \A p \in 1..Len(text) :
                      text[p] \in CallerValues => p > 1 /\ text[p - 1] \in {"LIMIT", "OFFSET"}
                /\ Cardinality(Positions(text, "WHERE")) = (IF Filtering = <<>> THEN 0 ELSE 1)

\* The analytics summary was asked with two filters, one of them a LIKE, and
\* its statement was sent.
C24_Witness ==
    /\ request.endpoint = "/api/analytics/summary"
    /\ response.http = 200
    /\ Len(Filtering) = 2
    /\ Truthy("location", request.filters["location"])
    /\ Statements_sent # {}

\* Whether the condition of a filter is written in a text.
ConditionIn(text, endpoint, name) ==
    LET c == Condition(endpoint, name)
    IN  \E p \in 1..(Len(text) - Len(c) + 1) : SubSeq(text, p, p + Len(c) - 1) = c

\* C25: filters_applied holds a value for a filter exactly when the
\* condition of that filter is in the statement that produced the data.
C25_EchoedIffApplied ==
    (request.endpoint \in Endpoints /\ response.http = 200) =>
        \A name \in DOMAIN response.filters_applied :
            response.filters_applied[name] # None
                <=> ConditionIn(calls[Len(calls) - 1].text, request.endpoint, name)

\* C28: a request that names a database with no file under data/ is
\* answered with HTTP 404 and the detail of get_db_connection.
C28_MissingDatabaseIs404 ==
    (request.endpoint \in Endpoints /\ request.database \notin DataFiles) =>
        /\ response.http = 404
        /\ response.detail = <<"Database ", request.database, " not found">>

====
